---- MODULE Spec2Model ----
(***************************************************************************)
(* Model of the MOE dispatch layer of the chatbot: the MOE client          *)
(* (lib/ai/providers/moe.ts), the provider middleware that wraps the       *)
(* default chat model (lib/ai/providers.ts) and the chat route handler     *)
(* (app/(chat)/api/chat/route.ts).  In the comments below "moe.ts" is       *)
(* src/lib/ai/providers/moe.ts, "providers.ts" is src/unnamed/part_002 and *)
(* "route.ts" is src/unnamed/part_000.                                     *)
(*                                                                         *)
(* Every request slot runs one chat POST, or one direct call of            *)
(* processMOERequest, at a time.  An await of a remote call is a state in  *)
(* which the remote (or the deadline) decides what happens next; the code  *)
(* that follows the await, up to the next await, is part of the action     *)
(* that resumes it.  Time is not measured: the deadline of a call is an    *)
(* event that happens at most once per call, and the timer callback runs   *)
(* at that event exactly when the timer is still armed.                    *)
(*                                                                         *)
(* SpecSeq runs one request after the other, over every input; Spec runs   *)
(* the requests of all slots concurrently, over the inputs that matter     *)
(* for their interleaving; SpecFn applies a function of moe.ts on its own  *)
(* to each of its arguments.  SpecLimit runs the chat POSTs of one user,   *)
(* one per slot, against the count of the messages they saved; SpecTest    *)
(* runs chat POSTs in the test environment.  SpecDeploy is the deployment  *)
(* script (src/unnamed/part_001), a program of its own.                    *)
(***************************************************************************)
EXTENDS Integers, Sequences, FiniteSets, TLC

\* ------------------------------------------------------------------ bounds

\* number of request slots, i.e. of requests that can be in progress at once
NumReqs == 2

Reqs == 1..NumReqs

\* longest message list a direct caller passes
MaxMessages == 2

\* entitlementsByUserType[userType].maxMessagesPerDay of the user of the
\* requests
maxMessagesPerDay == 1

\* ------------------------------------------------------- JavaScript values

Undefined == [t |-> "undefined"]

JsonNull == [t |-> "null"]

Str(s) == [t |-> "string", s |-> s]

Num(n) == [t |-> "number", n |-> n]

Bool(b) == [t |-> "boolean", b |-> b]

Arr(a) == [t |-> "array", a |-> a]

Obj(f) == [t |-> "object", f |-> f]

\* property read o.k of a value that is not null or undefined
Get(o, k) == IF o.t = "object" /\ k \in DOMAIN o.f THEN o.f[k] ELSE Undefined

\* o.k throws a TypeError
ReadThrows(o) == o.t \in {"null", "undefined"}

\* ToBoolean
Truthy(v) ==
    CASE v.t = "boolean" -> v.b
      [] v.t = "string" -> v.s # ""
      [] v.t = "number" -> v.n # 0
      [] v.t \in {"undefined", "null"} -> FALSE
      [] OTHER -> TRUE

\* a === b
StrictEq(a, b) == Bool(a = b)

\* a && b
AndAnd(a, b) == IF Truthy(a) THEN b ELSE a

\* how an async function settles
Return(v) == [c |-> "return", v |-> v]

Throw(e) == [c |-> "throw", e |-> e]

Pending == [c |-> "pending"]

\* ------------------------------------------------------------ moe.ts

\* the value of a decimal digit
DigitValue ==
    [c \in {"0", "1", "2", "3", "4", "5", "6", "7", "8", "9"} |->
        CASE c = "0" -> 0 [] c = "1" -> 1 [] c = "2" -> 2 [] c = "3" -> 3
          [] c = "4" -> 4 [] c = "5" -> 5 [] c = "6" -> 6 [] c = "7" -> 7
          [] c = "8" -> 8 [] c = "9" -> 9]

\* the result of parseInt for a string that does not start with a number
NaN == [t |-> "number", nan |-> TRUE]

RECURSIVE DigitsValue(_, _, _)
\* the number the digits of `string` from position i on denote, after the
\* digits that gave `acc`; the digits stop at the first other character
DigitsValue(string, i, acc) ==
    IF i > Len(string) \/ SubSeq(string, i, i) \notin DOMAIN DigitValue
    THEN acc
    ELSE DigitsValue(string, i + 1, 10 * acc + DigitValue[SubSeq(string, i, i)])

RECURSIVE SkipSpaces(_, _)
\* the position of the first character of `string` from i on that is not a space
SkipSpaces(string, i) ==
    IF i <= Len(string) /\ SubSeq(string, i, i) = " "
    THEN SkipSpaces(string, i + 1)
    ELSE i

\* parseInt(string, 10): leading spaces are skipped, a sign is read, then
\* digits up to the first other character; NaN when there is no digit
ParseInt(string) ==
    LET i == SkipSpaces(string, 1)
        signed == i <= Len(string) /\ SubSeq(string, i, i) \in {"-", "+"}
        first == IF signed THEN i + 1 ELSE i
    IN  IF first > Len(string) \/ SubSeq(string, first, first) \notin DOMAIN DigitValue
        THEN NaN
        ELSE IF signed /\ SubSeq(string, i, i) = "-"
             THEN Num(0 - DigitsValue(string, first, 0))
             ELSE Num(DigitsValue(string, first, 0))

\* moe.ts, line 10: parseInt(process.env.MOE_TIMEOUT_MS || '30000', 10) for
\* the value `env` of the environment variable (Undefined when it is not set)
ConfiguredTimeout(env) == ParseInt(IF Truthy(env) THEN env.s ELSE "30000")

\* the timers of the runtime take a delay that is not a number from 1 to
\* 2^31 - 1 as 1 ms
TimerDelay(delay) ==
    IF delay = NaN \/ delay.n < 1 \/ delay.n > 2147483647 THEN 1 ELSE delay.n

\* moe.ts, line 78: the delay of setTimeout(..., MOE_TIMEOUT_MS) when the
\* environment variable has the value `env`
ProcessDeadline(env) == TimerDelay(ConfiguredTimeout(env))

\* MOE_TIMEOUT_MS when the environment variable is not set
MOE_TIMEOUT_MS == ProcessDeadline(Undefined)

\* setTimeout(() => controller.abort(), 5000) in checkMOEAvailability
HEALTH_TIMEOUT_MS == 5000

\* class MOEError: new MOEError(message, status)
MOEError(message, status) ==
    [name |-> "MOEError", message |-> message, status |-> status]

\* new Error(message), a TypeError, a SyntaxError, a DOMException
Error(name, message) == [name |-> name, message |-> message]

\* checkMOEAvailability, line 54: if (!response.ok) return false
HealthNotOk == Bool(FALSE)

\* checkMOEAvailability, lines 58-59: the value returned for a parsed body;
\* a body that parsed to null makes data.status throw, and the catch of
\* lines 60-63 returns false
HealthFromBody(data) ==
    IF ReadThrows(data)
    THEN Bool(FALSE)
    ELSE AndAnd(StrictEq(Get(data, "status"), Str("healthy")),
                Get(data, "models_loaded"))

\* checkMOEAvailability, lines 60-63: catch (error) { ...; return false }
HealthCatch == Bool(FALSE)

\* the catch left out: the error of the liveness call reaches the caller
HealthCatchSettles_rethrow(error) == Throw(error)

\* checkMOEAvailability, lines 60-63: how the function settles when its try
\* block threw `error`
HealthCatchSettles(error) == Return(HealthCatch)

\* checkMOEAvailability, lines 58-63: how the function settles for a parsed
\* body; reading data.status of null throws a TypeError into the catch
HealthBodySettles(data) ==
    IF ReadThrows(data)
    THEN HealthCatchSettles(Error("TypeError", "Cannot read properties of null"))
    ELSE Return(HealthFromBody(data))

\* moe.ts, line 61: console.error('MOE health check failed:', error)
LogHealthCheckFailed == "MOE health check failed:"

\* moe.ts, line 148: console.warn(...)
LogMOEUnavailable == "MOE API unavailable, falling back to default provider"

\* moe.ts, line 174: console.error('MOE processing failed:', error)
LogProcessingFailed == "MOE processing failed:"

\* route.ts, line 116: console.warn(...)
LogRouteUnavailable == "MOE API unavailable for model, using fallback handling"

\* route.ts, line 119: console.error('Error checking MOE availability:', error)
LogRouteCheckError == "Error checking MOE availability:"

\* processMOEText, lines 95-100 and 104-106: a response that is not ok
ProcessNotOk(status) ==
    Throw(MOEError("MOE API returned status", Num(status)))

\* the error of the fetch thrown on as it is
ProcessCatch_rethrow(error) == Throw(error)

\* processMOEText, lines 103-113: the catch, for an error that is not a
\* MOEError
ProcessCatch(error) ==
    IF error.name = "AbortError"
    THEN Throw(MOEError("MOE API request timed out", Num(408)))
    ELSE Throw(MOEError("MOE API request failed", Undefined))

\* processMOEText, lines 85-89: the request body
ProcessRequestBody(text, task, options) ==
    [text |-> text, task |-> task, options |-> options]

\* the request issued again and again: three requests for one call
PostProcessSync_thrice(log, body) == log \o <<body, body, body>>

\* processMOEText, lines 80-91: one fetch of /process/sync for one call; the
\* requests sent so far, with this one
PostProcessSync(log, body) == Append(log, body)

\* processMOEText, line 74: the defaults { task = 'process', options = {} }
DefaultTask == "process"

DefaultOptions == Obj(<<>>)

RECURSIVE JoinStrings_comma(_)
JoinStrings_comma(parts) ==
    IF parts = <<>> THEN ""
    ELSE IF Len(parts) = 1 THEN Head(parts).s
    ELSE Head(parts).s \o "," \o JoinStrings_comma(Tail(parts))

RECURSIVE JoinStrings(_)
\* Array.prototype.join(' ') of an array of strings
JoinStrings(parts) ==
    IF parts = <<>> THEN ""
    ELSE IF Len(parts) = 1 THEN Head(parts).s
    ELSE Head(parts).s \o " " \o JoinStrings(Tail(parts))

\* extractMessageText, lines 119-136
extractMessageText(message) ==
    IF ~Truthy(message) \/ ~Truthy(Get(message, "content")) THEN ""
    ELSE LET content == Get(message, "content") IN
         IF content.t = "string" THEN content.s
         ELSE IF content.t = "array"
              THEN JoinStrings(SelectSeq(content.a, LAMBDA p : p.t = "string"))
              ELSE ""

\* shift() for pop(): the first user message
LastUserMessage_first(msgs) ==
    LET users == SelectSeq(msgs, LAMBDA m : Get(m, "role") = Str("user"))
    IN  IF users = <<>> THEN Undefined ELSE users[1]

\* processMOERequest, lines 153-155:
\* messages.filter(m => m.role === 'user').pop()
LastUserMessage(msgs) ==
    LET users == SelectSeq(msgs, LAMBDA m : Get(m, "role") = Str("user"))
    IN  IF users = <<>> THEN Undefined ELSE users[Len(users)]

\* processMOERequest, lines 149 and 175: return { usedFallback: true }
FallbackResult == Obj([usedFallback |-> Bool(TRUE)])

\* the availability check left out: the dispatch goes on whatever the probe said
Unavailable_unchecked(isMOEAvailable) == FALSE

\* the test inverted: if (isMOEAvailable)
Unavailable_inverted(isMOEAvailable) == Truthy(isMOEAvailable)

\* processMOERequest, line 147: if (!isMOEAvailable)
Unavailable(isMOEAvailable) == ~Truthy(isMOEAvailable)

\* the catch left out: the error of the try block propagates to the caller
DispatchCatch_rethrow(error) == Throw(error)

\* processMOERequest, lines 173-176: catch (error) { ...; return fallback }
DispatchCatch(error) == Return(FallbackResult)

\* processMOERequest, lines 166-172: the result built from the response; a
\* response that parsed to null makes moeResponse.result throw inside the try
DispatchFromResponse(moeResponse) ==
    IF ReadThrows(moeResponse)
    THEN DispatchCatch(Error("TypeError", "Cannot read properties of null"))
    ELSE Return(Obj([result |-> Get(moeResponse, "result"),
                     expertUsed |-> Get(moeResponse, "expert_used"),
                     confidence |-> Get(moeResponse, "confidence"),
                     processingTime |-> Get(moeResponse, "processing_time"),
                     usedFallback |-> Bool(FALSE)]))

\* processMOERequest, line 164 inside the try of lines 144-176: how the
\* dispatch settles when processMOEText settles with `settled`
DispatchFromProcess(settled) ==
    IF settled.c = "throw"
    THEN DispatchCatch(settled.e)
    ELSE DispatchFromResponse(settled.v)

\* ------------------------------------------------------------ providers.ts

\* the language models of myProvider a chat request selects among
ModelIds == {"chat-model", "moe-expert-byt5", "moe-expert-longformer", "moe-auto"}

\* providers.ts, lines 56-58, 72-74 and 88: the second argument of
\* processMOERequest in the middleware of each MOE model (none for moe-auto)
MiddlewareOptions(modelId) ==
    CASE modelId = "moe-expert-byt5" -> Obj([expertModel |-> Str("byt5")])
      [] modelId = "moe-expert-longformer" -> Obj([expertModel |-> Str("longformer")])
      [] OTHER -> Undefined

\* providers.ts, lines 52-97: the models wrapped by the MOE middleware
HasMOEMiddleware(modelId) ==
    modelId \in {"moe-expert-byt5", "moe-expert-longformer", "moe-auto"}

\* providers.ts, lines 38-97: the models myProvider wraps with the MOE
\* middleware: none in the test environment, where the MOE model ids are
\* the default chat model
WrappedByMiddleware(modelId, test) == ~test /\ HasMOEMiddleware(modelId)

\* route.ts, line 109: selectedChatModel.startsWith('moe-')
IsMOEModel(modelId) ==
    modelId \in {"moe-expert-byt5", "moe-expert-longformer", "moe-auto"}

\* route.ts, line 30
maxDuration == 60

\* route.ts, line 200: console.error('Error in chat stream:', error)
LogStreamError == "Error in chat stream:"

\* String.prototype.includes
Includes(string, part) ==
    \E i \in 1..(Len(string) - Len(part) + 1) :
        SubSeq(string, i, i + Len(part) - 1) = part

\* route.ts, line 202
TimeoutNotice ==
    "The request timed out. Please try again with a shorter message or try later."

\* route.ts, line 205
MOEUnavailableNotice ==
    "The MOE service is currently unavailable. Your message has been processed using a fallback model instead."

\* route.ts, line 207
GenericNotice == "Oops, an error occurred while processing your request!"

\* route.ts, lines 198-208: the message onError returns for the error of the
\* stream
OnError(error, isMOEModel, moeAvailableNow) ==
    IF error.name = "AbortError" \/ Includes(error.message, "timed out")
    THEN TimeoutNotice
    ELSE IF isMOEModel /\ ~Truthy(moeAvailableNow)
         THEN MOEUnavailableNotice
         ELSE GenericNotice

\* route.ts, line 212: console.error('Error in chat API:', error)
LogChatApiError == "Error in chat API:"

\* route.ts, lines 214-231: the status of the response the outer catch
\* returns for `error`
PostCatchStatus(error) ==
    IF Includes(error.message, "timed out") \/ Includes(error.message, "aborted")
    THEN 408
    ELSE IF Includes(error.message, "database") \/ Includes(error.message, "connection")
         THEN 503
         ELSE 500

\* route.ts, line 54: !session?.user
NoSessionUser(sess) == ~Truthy(Get(sess, "user"))

\* route.ts, line 65
OverLimit(messageCount) == messageCount.n > maxMessagesPerDay

\* the title is generated and the chat saved whatever the lookup found
ChatEffects_always(chat) == {"generateTitleFromUserMessage", "saveChat"}

\* route.ts, lines 76-81: what the handler writes for the chat getChatById
\* found: a chat that does not exist is given a title and saved
ChatEffects(chat) ==
    IF ~Truthy(chat) THEN {"generateTitleFromUserMessage", "saveChat"} ELSE {}

\* route.ts, line 83: chat.userId !== session.user.id
OwnedByAnother(chat, sess) == Get(chat, "userId") # Get(Get(sess, "user"), "id")

\* route.ts, line 245: !session?.user?.id
NoSessionUserId(sess) == ~Truthy(Get(Get(sess, "user"), "id"))

\* route.ts, line 252: chat.userId !== session.user.id
NotOwner(found, sess) == Get(found, "userId") # Get(Get(sess, "user"), "id")

\* providers.ts, line 65: what generate() of the default model resolves to
GeneratedResponse == Obj([text |-> Str("generated")])

\* providers.ts, line 61: return { text: moeResult.result }
ExpertResponse(moeResult) == Obj([text |-> Get(moeResult, "result")])

\* ------------------------------------------------------------------ inputs

Msg(role, content) == Obj([role |-> Str(role), content |-> content])

\* the messages a chat POST gives the model: the stored messages of the
\* chat followed by the user message of the request (route.ts, lines 88-93)
PostMessageLists ==
    { <<Msg("user", Str("hi")), Msg("assistant", Str("yo")),
        Msg("user", Str("why"))>> }

\* the messages the lists of a direct caller are made of: a plain user
\* message, an assistant message, a multi-part user message
MessageKinds ==
    { Msg("user", Str("hi")),
      Msg("assistant", Str("yo")),
      Msg("user", Arr(<<Str("b"), Obj([type |-> Str("image")]), Str("c")>>)) }

\* message lists a direct caller passes: every list of at most MaxMessages
\* messages
MessageLists == UNION {[1..n -> MessageKinds] : n \in 0..MaxMessages}

\* longest array content of a message given to extractMessageText
MaxParts == 3

\* the parts array contents are made of: an empty text, two texts and an
\* image
PartKinds == {Str(""), Str("b"), Str("c"), Obj([type |-> Str("image")])}

\* the contents of the messages given to extractMessageText: empty and
\* non-empty strings, a number, an object, and every array of at most
\* MaxParts parts
Contents ==
    {Str(""), Str("hi"), Num(7), Obj([type |-> Str("image")])}
    \cup {Arr(parts) : parts \in UNION {[1..n -> PartKinds] : n \in 0..MaxParts}}

\* the arguments of extractMessageText(message: any): no message, null, a
\* string, a message without content, and a message with each content
TextInputs ==
    {Undefined, JsonNull, Str("hi"), Obj([role |-> Str("user")])}
    \cup {Msg("user", content) : content \in Contents}

\* the values of process.env.MOE_TIMEOUT_MS: not set, empty, the default,
\* larger and smaller numbers of milliseconds, and texts that are no number
TimeoutEnvValues ==
    {Undefined, Str(""), Str("30000"), Str("60000"), Str(" 45000"),
     Str("5000"), Str("3000"), Str("0"), Str("-1"), Str("10s"),
     Str("thirty")}

\* the applications of a function on its own
Applications ==
    [fn : {"extractMessageText"}, arg : TextInputs]
    \cup [fn : {"MOE_TIMEOUT_MS"}, arg : TimeoutEnvValues]

\* options a direct caller of processMOERequest passes: none, or an expert
\* the MOE service does not have
DirectOptions ==
    { Undefined,
      Obj([expertModel |-> Str("gpt5")]) }

\* the experts the MOE service hosts (MOE_Integration_Documentation.md)
KnownExperts == {"byt5", "longformer"}

\* bodies the /health endpoint answers with
HealthBodies ==
    { Obj([status |-> Str("healthy"), models_loaded |-> Bool(TRUE)]),
      Obj([status |-> Str("healthy"), models_loaded |-> Bool(FALSE)]),
      Obj([status |-> Str("loading"), models_loaded |-> Bool(TRUE)]),
      JsonNull }

\* a well-formed body of /process/sync (MOE_API_Examples.md)
MOEResponse(expert, confidence) ==
    Obj([result |-> Str("processed"), expert_used |-> Str(expert),
         confidence |-> Num(confidence), processing_time |-> Num(1)])

\* bodies the /process/sync endpoint answers with: well-formed ones
\* (confidence in percent), an object without the fields, and null
ProcessBodies ==
    { MOEResponse("byt5", 100), MOEResponse("longformer", 87),
      Obj(<<>>), JsonNull }

\* status codes of responses that are not ok
ErrorStatuses == {500, 503}

\* errors generate() of the default model rejects with
GenerateErrors ==
    { Error("Error", "Internal Server Error"),
      Error("Error", "The operation timed out"),
      Error("AbortError", "This operation was aborted") }

\* route.ts, lines 37-38 and 50: the body of a POST that parses
PostBody(modelId) ==
    Obj([id |-> Str("chat"), message |-> Msg("user", Str("why")),
         selectedChatModel |-> Str(modelId)])

\* route.ts, lines 36-41: how reading and parsing the body ends, with a
\* body for each model or with the error of the schema
PostBodies ==
    {Return(PostBody(modelId)) : modelId \in ModelIds}
    \cup {Throw(Error("ZodError", "Invalid input"))}

\* route.ts, line 52: what auth() resolves to
UserSession == Obj([user |-> Obj([id |-> Str("me"), type |-> Str("regular")])])

Sessions == {JsonNull, UserSession}

\* route.ts, lines 60-63: what getMessageCountByUserId resolves to
MessageCounts == {Num(n) : n \in 0..(maxMessagesPerDay + 1)}

\* route.ts, line 74: how getChatById ends: no chat, a chat of the user, a
\* chat of another user, an error of the database
ChatLookups ==
    { Return(Undefined),
      Return(Obj([id |-> Str("chat"), userId |-> Str("me")])),
      Return(Obj([id |-> Str("chat"), userId |-> Str("other")])),
      Throw(Error("Error", "database connection lost")),
      Throw(Error("Error", "unexpected end of input")) }

\* route.ts, line 237: the id parameter of a DELETE: none, empty, that of a
\* chat
DeleteIds == {JsonNull, Str(""), Str("chat")}

\* route.ts, line 243: what auth() resolves to for a DELETE: no session, a
\* session whose user has no id, the session of the user
DeleteSessions ==
    {JsonNull, Obj([user |-> Obj([type |-> Str("guest")])]), UserSession}

\* ------------------------------------------------------------------- state

VARIABLES
    pc,                 \* where each request is
    caller,             \* "post": a chat POST; "direct": a call of processMOERequest
    selectedChatModel,  \* route.ts, line 50
    messages,           \* the messages given to the model / to processMOERequest
    options,            \* the second argument of processMOERequest
    timeout,            \* route.ts, line 45: the global timer of the POST
    aborted,            \* route.ts, line 44: abortController.signal.aborted
    moeAvailable,       \* route.ts, line 110
    call,               \* the remote call the request awaits, with its timer
    sent,               \* the bodies sent to /process/sync, in order
    isMOEAvailable,     \* moe.ts, line 146
    fetched,            \* how the fetches of the dispatch ended
    settled,            \* how processMOERequest settled
    console,            \* what the request wrote to the console
    generateCalls,      \* how many times the default model was invoked
    returned,           \* what the selected model returned to streamText
    notice,             \* the error message onError sent to the user
    probes,             \* how many times the request called /health
    responded,          \* route.ts: the status of the response of the POST, 0 before
    effects,            \* the storage functions the POST has called that write
    session,            \* route.ts, line 52
    leftArmed,          \* the timers of returned calls that were never cleared
    id,                 \* route.ts, line 237: searchParams.get('id') of a DELETE
    chat,               \* route.ts, line 250: how getChatById of a DELETE settled
    everFellBack,       \* history: some dispatch has returned the fallback result
    fnArg,              \* the function applied on its own, and its argument
    fnOut,              \* what that application returned
    isTestEnvironment,  \* providers.ts, line 7: the environment of the process
    at,                 \* deploy script: where main is
    files,              \* deploy script: the files of the working directory
    created,            \* deploy script: vercel.env.json was written by this run
    proceed,            \* deploy script, line 346: the answer to the last question
    deployResult,       \* deploy script, line 162: how the deploy command ended
    stdout,             \* deploy script: what was printed
    exitCode            \* deploy script: the exit code of the process, -1 while it runs

requestVars ==
    <<pc, caller, selectedChatModel, messages, options, timeout, aborted,
      moeAvailable, call, sent, isMOEAvailable, fetched, settled, console,
      generateCalls, returned, notice, everFellBack, probes, responded, effects,
      session, leftArmed,
      id,
      chat>>

\* the state of the deploy script (src/unnamed/part_001, "deploy script"
\* in the comments)
deployVars == <<at, files, created, proceed, deployResult, stdout, exitCode>>

\* the state of the chat application
chatVars == <<requestVars, fnArg, fnOut, isTestEnvironment>>

vars == <<chatVars, deployVars>>

None == "none"

NoCall ==
    [kind |-> "none", phase |-> "none", timer |-> "none", deadline |-> 0,
     expired |-> FALSE]

\* moe.ts, lines 44-50 and 77-91: new AbortController, setTimeout, fetch
NewCall(kind, deadline) ==
    [kind |-> kind, phase |-> "headers", timer |-> "armed",
     deadline |-> deadline, expired |-> FALSE]

\* how the fetches of a dispatch ended, the status of a /process/sync
\* response that was not ok, the body it parsed to, and the error
\* processMOEText threw
NoFetches ==
    [health |-> "none", process |-> "none", status |-> Undefined,
     body |-> Undefined, error |-> Undefined]

\* no function is applied on its own
NoApplication == [fn |-> "none", arg |-> Undefined]

InitRequests ==
    /\ pc = [r \in Reqs |-> "idle"]
    /\ caller = [r \in Reqs |-> None]
    /\ selectedChatModel = [r \in Reqs |-> None]
    /\ messages = [r \in Reqs |-> <<>>]
    /\ options = [r \in Reqs |-> Undefined]
    /\ timeout = [r \in Reqs |-> "unset"]
    /\ aborted = [r \in Reqs |-> FALSE]
    /\ moeAvailable = [r \in Reqs |-> Bool(FALSE)]
    /\ call = [r \in Reqs |-> NoCall]
    /\ sent = [r \in Reqs |-> <<>>]
    /\ isMOEAvailable = [r \in Reqs |-> Undefined]
    /\ fetched = [r \in Reqs |-> NoFetches]
    /\ settled = [r \in Reqs |-> Pending]
    /\ console = [r \in Reqs |-> {}]
    /\ generateCalls = [r \in Reqs |-> 0]
    /\ returned = [r \in Reqs |-> Undefined]
    /\ notice = [r \in Reqs |-> None]
    /\ probes = [r \in Reqs |-> 0]
    /\ responded = [r \in Reqs |-> 0]
    /\ effects = [r \in Reqs |-> {}]
    /\ session = [r \in Reqs |-> Undefined]
    /\ leftArmed = [r \in Reqs |-> {}]
    /\ id = [r \in Reqs |-> Undefined]
    /\ chat = [r \in Reqs |-> Pending]
    /\ everFellBack = FALSE

\* the deploy script does not run
NoDeploy ==
    /\ at = "none"
    /\ files = {}
    /\ created = FALSE
    /\ proceed = "unasked"
    /\ deployResult = "none"
    /\ stdout = {}
    /\ exitCode = -1

Init ==
    /\ InitRequests
    /\ fnArg = NoApplication
    /\ fnOut = Pending
    /\ isTestEnvironment = FALSE
    /\ NoDeploy

\* ----------------------------------------------------------------- actions

\* processMOERequest, line 143: the default of the parameter `options = {}`
OptionsOrDefault(arg) == IF arg = Undefined THEN Obj(<<>>) ELSE arg

\* processMOEText, lines 72-75 and 85-89: the body sent for the arguments
\* (text, requestOptions), with the defaults of the destructuring
ProcessBodyFor(text, requestOptions) ==
    LET task == Get(requestOptions, "task")
        opts == Get(requestOptions, "options")
    IN  ProcessRequestBody(text,
                           IF task = Undefined THEN DefaultTask ELSE task.s,
                           IF opts = Undefined THEN DefaultOptions ELSE opts)

\* processMOERequest, line 164: processMOEText(userText), called without a
\* second argument
ProcessArgsOf(userText, dispatchOptions) == Undefined

\* the test of usedFallback left out: the middleware always goes on to
\* generate()
AfterDispatch_always(r, s) == IF caller[r] = "direct" THEN "done" ELSE "generate"

\* providers.ts, lines 60-65 (76-81, 90-95): the middleware resumes when
\* processMOERequest settles; a direct caller just has the result.
\* The next position of request r.
AfterDispatch(r, s) ==
    IF caller[r] = "direct" \/ s.c = "throw" THEN "done"
    ELSE IF ~Truthy(Get(s.v, "usedFallback")) THEN "done"
    ELSE "generate"

\* one controller for all calls: ending one call ends all that are in flight
ControllerScope_shared(r) == Reqs

\* moe.ts, lines 44-45 and 77-78: the AbortController and the timer are
\* locals of the call; the requests whose call they end
ControllerScope(r) == {r}

\* processMOERequest settles with s; the middleware that awaited it calls
\* generate() or returns the expert's text (providers.ts, lines 60-65)
Settle(r, s) ==
    /\ settled' = [settled EXCEPT ![r] = s]
    /\ pc' = [pc EXCEPT ![r] = AfterDispatch(r, s)]
    /\ call' = [q \in Reqs |-> IF q \in ControllerScope(r) THEN NoCall ELSE call[q]]
    /\ generateCalls' = [generateCalls EXCEPT ![r] =
                             IF AfterDispatch(r, s) = "generate" THEN @ + 1 ELSE @]
    /\ returned' = [returned EXCEPT ![r] =
                        IF caller[r] = "post" /\ s.c = "return" /\ AfterDispatch(r, s) = "done"
                        THEN ExpertResponse(s.v) ELSE @]
    /\ everFellBack' = (everFellBack \/ (s.c = "return" /\ Truthy(Get(s.v, "usedFallback"))))
    /\ UNCHANGED notice

\* console.warn / console.error: request r writes entries to the console
Log(r, entries) == console' = [console EXCEPT ![r] = @ \cup entries]

\* a failure is remembered: once a dispatch has fallen back, the service
\* counts as unavailable
FreshVerdict_remembered(v) == IF everFellBack THEN Bool(FALSE) ELSE v

\* processMOERequest, line 146: const isMOEAvailable = await
\* checkMOEAvailability(): the verdict of the probe of this dispatch, whatever
\* earlier dispatches saw
FreshVerdict(v) == v

\* processMOERequest, lines 144-176: checkMOEAvailability settled with s,
\* having written `logged` to the console
DispatchAfterProbe(r, s, logged) ==
    /\ IF s.c = "throw"
       THEN /\ Settle(r, DispatchCatch(s.e))
            /\ Log(r, logged \cup {LogProcessingFailed})
            /\ UNCHANGED <<isMOEAvailable, sent>>
       ELSE /\ isMOEAvailable' = [isMOEAvailable EXCEPT ![r] = FreshVerdict(s.v)]
            /\ IF Unavailable(FreshVerdict(s.v))
               THEN /\ Settle(r, Return(FallbackResult))
                    /\ Log(r, logged \cup {LogMOEUnavailable})
                    /\ UNCHANGED sent
               ELSE LET lastUserMessage == LastUserMessage(messages[r]) IN
                    IF ~Truthy(lastUserMessage)
                    THEN /\ Settle(r, DispatchCatch(Error("Error", "No user message found")))
                         /\ Log(r, logged \cup {LogProcessingFailed})
                         /\ UNCHANGED sent
                    ELSE LET userText == extractMessageText(lastUserMessage) IN
                         /\ sent' = [sent EXCEPT ![r] = PostProcessSync(@,
                                ProcessBodyFor(userText, ProcessArgsOf(userText, options[r])))]
                         /\ call' = [call EXCEPT ![r] = NewCall("process", MOE_TIMEOUT_MS)]
                         /\ pc' = [pc EXCEPT ![r] = "dispatchProcess"]
                         /\ Log(r, logged)
                         /\ UNCHANGED <<settled, generateCalls, returned, notice, everFellBack>>
    /\ UNCHANGED moeAvailable

\* route.ts, lines 112-123: checkMOEAvailability settled with s, having
\* written `logged` to the console; the handler returns the streaming response
RouteAfterProbe(r, s, logged) ==
    /\ IF s.c = "throw"
       THEN /\ Log(r, logged \cup {LogRouteCheckError})
            /\ UNCHANGED moeAvailable
       ELSE /\ moeAvailable' = [moeAvailable EXCEPT ![r] = s.v]
            /\ Log(r, logged \cup (IF ~Truthy(s.v) THEN {LogRouteUnavailable} ELSE {}))
    /\ pc' = [pc EXCEPT ![r] = "respond"]
    /\ call' = [call EXCEPT ![r] = NoCall]
    /\ UNCHANGED <<isMOEAvailable, sent, settled, generateCalls, returned, notice,
                   everFellBack>>

\* checkMOEAvailability settles with s for whoever awaits it, having written
\* `logged` to the console; `how` is how its fetch ended
HealthReturns(r, s, how, logged) ==
    /\ IF pc[r] = "routeProbe"
       THEN RouteAfterProbe(r, s, logged) /\ UNCHANGED fetched
       ELSE /\ DispatchAfterProbe(r, s, logged)
            /\ fetched' = [fetched EXCEPT ![r].health =
                               IF s.c = "throw" THEN "threw" ELSE how]
    /\ UNCHANGED <<caller, selectedChatModel, messages, options, timeout, aborted>>

AwaitsHealth(r) == pc[r] \in {"routeProbe", "dispatchProbe"} /\ call[r].kind = "health"

\* route.ts, lines 212-231: the outer catch of the POST: the global timer is
\* cleared, the error is logged and answered with its status
PostCatch(r, error) ==
    /\ timeout' = [timeout EXCEPT ![r] = IF @ = "armed" THEN "cleared" ELSE @]
    /\ Log(r, {LogChatApiError})
    /\ responded' = [responded EXCEPT ![r] = PostCatchStatus(error)]
    /\ pc' = [pc EXCEPT ![r] = "done"]

\* route.ts, lines 33-56: a chat POST arrives; reading its body ended with
\* `parsed`: a body that does not parse is answered with 400; the global
\* timer is set; auth() resolves to `sess`, and without a user the POST is
\* answered with 401
PostBegin(r, parsed, sess) ==
    /\ pc[r] = "idle"
    /\ caller' = [caller EXCEPT ![r] = "post"]
    /\ IF parsed.c = "throw"
       THEN /\ responded' = [responded EXCEPT ![r] = 400]
            /\ pc' = [pc EXCEPT ![r] = "done"]
            /\ UNCHANGED <<selectedChatModel, timeout, session>>
       ELSE /\ selectedChatModel' = [selectedChatModel EXCEPT ![r] =
                                         Get(parsed.v, "selectedChatModel").s]
            /\ timeout' = [timeout EXCEPT ![r] = "armed"]
            /\ session' = [session EXCEPT ![r] = sess]
            /\ IF NoSessionUser(sess)
               THEN /\ responded' = [responded EXCEPT ![r] = 401]
                    /\ pc' = [pc EXCEPT ![r] = "done"]
               ELSE /\ pc' = [pc EXCEPT ![r] = "postLimit"]
                    /\ UNCHANGED responded
    /\ UNCHANGED <<messages, options, aborted, moeAvailable, call, sent,
                   isMOEAvailable, fetched, settled, console, generateCalls,
                   returned, notice, everFellBack, probes, effects, leftArmed>>
    /\ UNCHANGED <<fnArg, fnOut, isTestEnvironment, deployVars>>
    /\ UNCHANGED <<id, chat>>

\* route.ts, lines 60-72: getMessageCountByUserId resolves to messageCount;
\* over the limit of the day the POST is answered with 429
PostCheckLimit(r, messageCount) ==
    /\ pc[r] = "postLimit"
    /\ IF OverLimit(messageCount)
       THEN /\ responded' = [responded EXCEPT ![r] = 429]
            /\ pc' = [pc EXCEPT ![r] = "done"]
       ELSE /\ pc' = [pc EXCEPT ![r] = "postChat"]
            /\ UNCHANGED responded
    /\ UNCHANGED <<caller, selectedChatModel, messages, options, timeout,
                   aborted, moeAvailable, call, sent, isMOEAvailable, fetched,
                   settled, console, generateCalls, returned, notice,
                   everFellBack, probes, effects, session, leftArmed>>
    /\ UNCHANGED <<fnArg, fnOut, isTestEnvironment, deployVars>>
    /\ UNCHANGED <<id, chat>>

\* route.ts, lines 74-86: getChatById settles with s: a chat that does not
\* exist is given a title and saved, the chat of another user is answered
\* with 403; an error of the database goes to the outer catch
PostLookupChat(r, s) ==
    /\ pc[r] = "postChat"
    /\ IF s.c = "throw"
       THEN PostCatch(r, s.e) /\ UNCHANGED effects
       ELSE /\ effects' = [effects EXCEPT ![r] = @ \cup ChatEffects(s.v)]
            /\ IF Truthy(s.v) /\ OwnedByAnother(s.v, session[r])
               THEN /\ responded' = [responded EXCEPT ![r] = 403]
                    /\ pc' = [pc EXCEPT ![r] = "done"]
               ELSE /\ pc' = [pc EXCEPT ![r] = "postSave"]
                    /\ UNCHANGED responded
            /\ UNCHANGED <<timeout, console>>
    /\ UNCHANGED <<caller, selectedChatModel, messages, options, aborted,
                   moeAvailable, call, sent, isMOEAvailable, fetched, settled,
                   generateCalls, returned, notice, everFellBack, probes,
                   session, leftArmed>>
    /\ UNCHANGED <<fnArg, fnOut, isTestEnvironment, deployVars>>
    /\ UNCHANGED <<id, chat>>

\* route.ts, lines 88-121: the messages of the chat are read and the message
\* of the request appended; the user message is saved; for a MOE model the
\* handler calls checkMOEAvailability
PostSaveMessage(r, msgs) ==
    /\ pc[r] = "postSave"
    /\ messages' = [messages EXCEPT ![r] = msgs]
    /\ effects' = [effects EXCEPT ![r] = @ \cup {"saveMessages"}]
    /\ IF IsMOEModel(selectedChatModel[r])
       THEN /\ call' = [call EXCEPT ![r] = NewCall("health", HEALTH_TIMEOUT_MS)]
            /\ probes' = [probes EXCEPT ![r] = @ + 1]
            /\ pc' = [pc EXCEPT ![r] = "routeProbe"]
       ELSE /\ pc' = [pc EXCEPT ![r] = "respond"]
            /\ UNCHANGED <<call, probes>>
    /\ UNCHANGED <<caller, selectedChatModel, options, timeout, aborted,
                   moeAvailable, sent, isMOEAvailable, fetched, settled,
                   console, generateCalls, returned, notice, everFellBack,
                   responded, session, leftArmed>>
    /\ UNCHANGED <<fnArg, fnOut, isTestEnvironment, deployVars>>
    /\ UNCHANGED <<id, chat>>

\* route.ts, lines 123-197 with providers.ts, lines 54-58: the handler
\* returns the streaming response, and streamText calls the selected model;
\* a MOE model's middleware calls processMOERequest, which starts with
\* checkMOEAvailability (moe.ts, lines 143-146)
Respond(r) ==
    /\ pc[r] = "respond"
    /\ responded' = [responded EXCEPT ![r] = 200]
    /\ IF WrappedByMiddleware(selectedChatModel[r], isTestEnvironment)
       THEN /\ options' = [options EXCEPT ![r] =
                   OptionsOrDefault(MiddlewareOptions(selectedChatModel[r]))]
            /\ call' = [call EXCEPT ![r] = NewCall("health", HEALTH_TIMEOUT_MS)]
            /\ pc' = [pc EXCEPT ![r] = "dispatchProbe"]
            /\ probes' = [probes EXCEPT ![r] = @ + 1]
            /\ UNCHANGED generateCalls
       ELSE /\ pc' = [pc EXCEPT ![r] = "generate"]
            /\ generateCalls' = [generateCalls EXCEPT ![r] = @ + 1]
            /\ UNCHANGED <<options, call, probes>>
    /\ UNCHANGED <<caller, selectedChatModel, messages, timeout, aborted,
                   moeAvailable, sent, isMOEAvailable, fetched, settled, console,
                   returned, notice, everFellBack>>
    /\ UNCHANGED <<fnArg, fnOut, isTestEnvironment, deployVars>>
    /\ UNCHANGED <<effects, session, leftArmed>>
    /\ UNCHANGED <<id, chat>>

\* moe.ts, lines 143-146: a caller other than the middleware calls
\* processMOERequest(messages, options)
DirectDispatch(r, msgs, opts) ==
    /\ pc[r] = "idle"
    /\ caller' = [caller EXCEPT ![r] = "direct"]
    /\ messages' = [messages EXCEPT ![r] = msgs]
    /\ options' = [options EXCEPT ![r] = OptionsOrDefault(opts)]
    /\ call' = [call EXCEPT ![r] = NewCall("health", HEALTH_TIMEOUT_MS)]
    /\ pc' = [pc EXCEPT ![r] = "dispatchProbe"]
    /\ UNCHANGED <<selectedChatModel, timeout, aborted, moeAvailable, sent,
                   isMOEAvailable, fetched, settled, console,
                   generateCalls, returned, notice, everFellBack>>
    /\ probes' = [probes EXCEPT ![r] = @ + 1]
    /\ UNCHANGED <<fnArg, fnOut, isTestEnvironment, deployVars>>
    /\ UNCHANGED <<responded, effects, session, leftArmed>>
    /\ UNCHANGED <<id, chat>>

\* checkMOEAvailability, lines 47-56: the response headers arrive; the timer
\* is cleared; a response that is not ok returns false, an ok one goes on to
\* read the body
HealthHeaders(r, ok) ==
    /\ AwaitsHealth(r)
    /\ call[r].phase = "headers"
    /\ IF ok
       THEN /\ call' = [call EXCEPT ![r].phase = "body", ![r].timer = "cleared"]
            /\ UNCHANGED <<pc, caller, selectedChatModel, messages, options,
                           timeout, aborted, moeAvailable, sent,
                           isMOEAvailable, fetched, settled, console,
                   generateCalls, returned, notice, everFellBack>>
       ELSE HealthReturns(r, Return(HealthNotOk), "status", {})
    /\ UNCHANGED probes
    /\ UNCHANGED <<fnArg, fnOut, isTestEnvironment, deployVars>>
    /\ UNCHANGED <<responded, effects, session, leftArmed>>
    /\ UNCHANGED <<id, chat>>

\* checkMOEAvailability, lines 47 and 60-63: fetch rejects (connection
\* refused, reset)
HealthFetchFails(r) ==
    /\ AwaitsHealth(r)
    /\ call[r].phase = "headers"
    /\ HealthReturns(r, HealthCatchSettles(Error("TypeError", "fetch failed")),
                     "neterror", {LogHealthCheckFailed})
    /\ UNCHANGED probes
    /\ UNCHANGED <<fnArg, fnOut, isTestEnvironment, deployVars>>
    /\ UNCHANGED <<responded, effects, session>>
    /\ leftArmed' = [leftArmed EXCEPT ![r] = @ \cup {call[r].kind}]
    /\ UNCHANGED <<id, chat>>

\* checkMOEAvailability, lines 45 and 60-63: the timer fires, the callback
\* aborts the fetch, which rejects
HealthTimeout(r) ==
    /\ AwaitsHealth(r)
    /\ call[r].timer = "armed"
    /\ HealthReturns(r, HealthCatchSettles(Error("AbortError", "This operation was aborted")),
                     "timeout", {LogHealthCheckFailed})
    /\ UNCHANGED probes
    /\ UNCHANGED <<fnArg, fnOut, isTestEnvironment, deployVars>>
    /\ UNCHANGED <<responded, effects, session, leftArmed>>
    /\ UNCHANGED <<id, chat>>

\* checkMOEAvailability, lines 58-59: the body arrives and parses
HealthBody(r, data) ==
    /\ AwaitsHealth(r)
    /\ call[r].phase = "body"
    /\ HealthReturns(r, HealthBodySettles(data),
                     IF Truthy(HealthFromBody(data)) THEN "affirmative" ELSE "negative",
                     IF ReadThrows(data) THEN {LogHealthCheckFailed} ELSE {})
    /\ UNCHANGED probes
    /\ UNCHANGED <<fnArg, fnOut, isTestEnvironment, deployVars>>
    /\ UNCHANGED <<responded, effects, session, leftArmed>>
    /\ UNCHANGED <<id, chat>>

\* checkMOEAvailability, lines 58 and 60-63: response.json() rejects (the
\* body does not parse, or the connection breaks)
HealthBodyFails(r) ==
    /\ AwaitsHealth(r)
    /\ call[r].phase = "body"
    /\ HealthReturns(r, HealthCatchSettles(Error("SyntaxError", "Unexpected token")),
                     "unparseable", {LogHealthCheckFailed})
    /\ UNCHANGED probes
    /\ UNCHANGED <<fnArg, fnOut, isTestEnvironment, deployVars>>
    /\ UNCHANGED <<responded, effects, session, leftArmed>>
    /\ UNCHANGED <<id, chat>>

AwaitsProcess(r) == pc[r] = "dispatchProcess" /\ call[r].kind = "process"

\* processMOERequest, lines 164-176: processMOEText settled with s, after a
\* response with `status` (when there was one that was not ok)
ProcessSettles(r, s, how, status) ==
    /\ Settle(r, DispatchFromProcess(s))
    /\ fetched' = [fetched EXCEPT ![r].process = how,
                                  ![r].status = status,
                                  ![r].body = IF s.c = "return" THEN s.v ELSE Undefined,
                                  ![r].error = IF s.c = "throw" THEN s.e ELSE Undefined]
    /\ Log(r, IF s.c = "throw" \/ ReadThrows(s.v) THEN {LogProcessingFailed} ELSE {})
    /\ UNCHANGED <<caller, selectedChatModel, messages, options, timeout,
                   aborted, moeAvailable, sent, isMOEAvailable>>

\* processMOEText, lines 80-100: the response headers arrive; the timer is
\* cleared; a response that is not ok throws, an ok one goes on to read the
\* body
ProcessHeaders(r, ok, status) ==
    /\ AwaitsProcess(r)
    /\ call[r].phase = "headers"
    /\ IF ok
       THEN /\ call' = [call EXCEPT ![r].phase = "body", ![r].timer = "cleared"]
            /\ UNCHANGED <<pc, caller, selectedChatModel, messages, options,
                           timeout, aborted, moeAvailable, sent,
                           isMOEAvailable, fetched, settled, console,
                   generateCalls, returned, notice, everFellBack>>
       ELSE ProcessSettles(r, ProcessNotOk(status), "status", Num(status))
    /\ UNCHANGED probes
    /\ UNCHANGED <<fnArg, fnOut, isTestEnvironment, deployVars>>
    /\ UNCHANGED <<responded, effects, session, leftArmed>>
    /\ UNCHANGED <<id, chat>>

\* processMOEText, lines 80 and 103-112: fetch rejects
ProcessFetchFails(r) ==
    /\ AwaitsProcess(r)
    /\ call[r].phase = "headers"
    /\ ProcessSettles(r, ProcessCatch(Error("TypeError", "fetch failed")),
                      "neterror", Undefined)
    /\ UNCHANGED probes
    /\ UNCHANGED <<fnArg, fnOut, isTestEnvironment, deployVars>>
    /\ UNCHANGED <<responded, effects, session>>
    /\ leftArmed' = [leftArmed EXCEPT ![r] = @ \cup {call[r].kind}]
    /\ UNCHANGED <<id, chat>>

\* processMOEText, lines 78 and 103-110: the timer fires, the callback
\* aborts the fetch, which rejects with an AbortError
ProcessTimeout(r) ==
    /\ AwaitsProcess(r)
    /\ call[r].timer = "armed"
    /\ ProcessSettles(r, ProcessCatch(Error("AbortError", "This operation was aborted")),
                      "timeout", Undefined)
    /\ UNCHANGED probes
    /\ UNCHANGED <<fnArg, fnOut, isTestEnvironment, deployVars>>
    /\ UNCHANGED <<responded, effects, session, leftArmed>>
    /\ UNCHANGED <<id, chat>>

\* processMOEText, line 102: the body arrives and parses
ProcessBody(r, body) ==
    /\ AwaitsProcess(r)
    /\ call[r].phase = "body"
    /\ ProcessSettles(r, Return(body), "body", Undefined)
    /\ UNCHANGED probes
    /\ UNCHANGED <<fnArg, fnOut, isTestEnvironment, deployVars>>
    /\ UNCHANGED <<responded, effects, session, leftArmed>>
    /\ UNCHANGED <<id, chat>>

\* processMOEText, lines 102-112: response.json() rejects
ProcessBodyFails(r) ==
    /\ AwaitsProcess(r)
    /\ call[r].phase = "body"
    /\ ProcessSettles(r, ProcessCatch(Error("SyntaxError", "Unexpected token")),
                      "unparseable", Undefined)
    /\ UNCHANGED probes
    /\ UNCHANGED <<fnArg, fnOut, isTestEnvironment, deployVars>>
    /\ UNCHANGED <<responded, effects, session, leftArmed>>
    /\ UNCHANGED <<id, chat>>

\* the deadline of the call in flight passes after its timer was cleared
\* (moe.ts, lines 52 and 93): no callback runs
DeadlinePasses(r) ==
    /\ call[r].kind # "none"
    /\ call[r].timer = "cleared"
    /\ ~call[r].expired
    /\ call' = [call EXCEPT ![r].expired = TRUE]
    /\ UNCHANGED <<pc, caller, selectedChatModel, messages, options, timeout,
                   aborted, moeAvailable, sent, isMOEAvailable, fetched, settled, console,
                   generateCalls, returned, notice, everFellBack>>
    /\ UNCHANGED probes
    /\ UNCHANGED <<fnArg, fnOut, isTestEnvironment, deployVars>>
    /\ UNCHANGED <<responded, effects, session, leftArmed>>
    /\ UNCHANGED <<id, chat>>

\* route.ts, lines 45-47: the global timer fires, abortController.abort()
GlobalTimeoutFires(r) ==
    /\ timeout[r] = "armed"
    /\ timeout' = [timeout EXCEPT ![r] = "fired"]
    /\ aborted' = [aborted EXCEPT ![r] = TRUE]
    /\ UNCHANGED <<pc, caller, selectedChatModel, messages, options,
                   moeAvailable, call, sent, isMOEAvailable, fetched, settled, console,
                   generateCalls, returned, notice, everFellBack>>
    /\ UNCHANGED probes
    /\ UNCHANGED <<fnArg, fnOut, isTestEnvironment, deployVars>>
    /\ UNCHANGED <<responded, effects, session, leftArmed>>
    /\ UNCHANGED <<id, chat>>

\* providers.ts, lines 65, 81, 95: generate() of the default model returns
GenerateReturns(r) ==
    /\ pc[r] = "generate"
    /\ pc' = [pc EXCEPT ![r] = "done"]
    /\ returned' = [returned EXCEPT ![r] = GeneratedResponse]
    /\ UNCHANGED <<caller, selectedChatModel, messages, options, timeout,
                   aborted, moeAvailable, call, sent, isMOEAvailable, fetched,
                   settled, console, generateCalls, notice, everFellBack>>
    /\ UNCHANGED probes
    /\ UNCHANGED <<fnArg, fnOut, isTestEnvironment, deployVars>>
    /\ UNCHANGED <<responded, effects, session, leftArmed>>
    /\ UNCHANGED <<id, chat>>

\* route.ts, lines 198-208: generate() of the default model rejects, the
\* stream fails and onError runs
GenerateFails(r, error) ==
    /\ pc[r] = "generate"
    /\ pc' = [pc EXCEPT ![r] = "done"]
    /\ timeout' = [timeout EXCEPT ![r] = IF @ = "armed" THEN "cleared" ELSE @]
    /\ Log(r, {LogStreamError})
    /\ notice' = [notice EXCEPT ![r] =
                      OnError(error, IsMOEModel(selectedChatModel[r]), moeAvailable[r])]
    /\ UNCHANGED <<caller, selectedChatModel, messages, options, aborted,
                   moeAvailable, call, sent, isMOEAvailable, fetched, settled,
                   generateCalls, returned, everFellBack>>
    /\ UNCHANGED probes
    /\ UNCHANGED <<fnArg, fnOut, isTestEnvironment, deployVars>>
    /\ UNCHANGED <<responded, effects, session, leftArmed>>
    /\ UNCHANGED <<id, chat>>

\* route.ts, lines 235-246: a DELETE arrives with the parameter `param`;
\* without it the answer is 404; auth() resolves to `sess`, and without the
\* id of a user the answer is 401
DeleteBegin(r, param, sess) ==
    /\ pc[r] = "idle"
    /\ caller' = [caller EXCEPT ![r] = "delete"]
    /\ id' = [id EXCEPT ![r] = param]
    /\ IF ~Truthy(param)
       THEN /\ responded' = [responded EXCEPT ![r] = 404]
            /\ pc' = [pc EXCEPT ![r] = "done"]
            /\ UNCHANGED session
       ELSE /\ session' = [session EXCEPT ![r] = sess]
            /\ IF NoSessionUserId(sess)
               THEN /\ responded' = [responded EXCEPT ![r] = 401]
                    /\ pc' = [pc EXCEPT ![r] = "done"]
               ELSE /\ pc' = [pc EXCEPT ![r] = "deleteLookup"]
                    /\ UNCHANGED responded
    /\ UNCHANGED <<selectedChatModel, messages, options, timeout, aborted,
                   moeAvailable, call, sent, isMOEAvailable, fetched, settled,
                   console, generateCalls, returned, notice, everFellBack,
                   probes, effects, leftArmed, chat>>
    /\ UNCHANGED <<fnArg, fnOut, isTestEnvironment, deployVars>>

\* route.ts, lines 249-263: getChatById settles with s; reading the userId
\* of no chat throws; the chat of another user is answered with 403;
\* otherwise deleteChatById is called and resolves (200) or rejects; every
\* error is answered with 500
DeleteLookup(r, s, deleted) ==
    /\ pc[r] = "deleteLookup"
    /\ chat' = [chat EXCEPT ![r] = s]
    /\ pc' = [pc EXCEPT ![r] = "done"]
    /\ IF s.c = "throw" \/ ReadThrows(s.v)
       THEN /\ responded' = [responded EXCEPT ![r] = 500]
            /\ UNCHANGED effects
       ELSE IF NotOwner(s.v, session[r])
            THEN /\ responded' = [responded EXCEPT ![r] = 403]
                 /\ UNCHANGED effects
            ELSE /\ effects' = [effects EXCEPT ![r] = @ \cup {"deleteChatById"}]
                 /\ responded' = [responded EXCEPT ![r] = IF deleted THEN 200 ELSE 500]
    /\ UNCHANGED <<caller, selectedChatModel, messages, options, timeout,
                   aborted, moeAvailable, call, sent, isMOEAvailable, fetched,
                   settled, console, generateCalls, returned, notice,
                   everFellBack, probes, session, leftArmed, id>>
    /\ UNCHANGED <<fnArg, fnOut, isTestEnvironment, deployVars>>

\* moe.ts, lines 45 and 78: a timer that outlived its call fires; its
\* callback aborts a controller whose fetch has ended
StrayTimerFires(r, kind) ==
    /\ kind \in leftArmed[r]
    /\ leftArmed' = [leftArmed EXCEPT ![r] = @ \ {kind}]
    /\ UNCHANGED <<pc, caller, selectedChatModel, messages, options, timeout,
                   aborted, moeAvailable, call, sent, isMOEAvailable, fetched,
                   settled, console, generateCalls, returned, notice,
                   everFellBack, probes, responded, effects, session>>
    /\ UNCHANGED <<fnArg, fnOut, isTestEnvironment, deployVars>>
    /\ UNCHANGED <<id, chat>>

\* the slot is taken by the next request
NextRequest(r) ==
    /\ pc[r] = "done"
    /\ pc' = [pc EXCEPT ![r] = "idle"]
    /\ caller' = [caller EXCEPT ![r] = None]
    /\ selectedChatModel' = [selectedChatModel EXCEPT ![r] = None]
    /\ messages' = [messages EXCEPT ![r] = <<>>]
    /\ options' = [options EXCEPT ![r] = Undefined]
    /\ timeout' = [timeout EXCEPT ![r] = "unset"]
    /\ aborted' = [aborted EXCEPT ![r] = FALSE]
    /\ moeAvailable' = [moeAvailable EXCEPT ![r] = Bool(FALSE)]
    /\ call' = [call EXCEPT ![r] = NoCall]
    /\ sent' = [sent EXCEPT ![r] = <<>>]
    /\ isMOEAvailable' = [isMOEAvailable EXCEPT ![r] = Undefined]
    /\ fetched' = [fetched EXCEPT ![r] = NoFetches]
    /\ settled' = [settled EXCEPT ![r] = Pending]
    /\ console' = [console EXCEPT ![r] = {}]
    /\ generateCalls' = [generateCalls EXCEPT ![r] = 0]
    /\ returned' = [returned EXCEPT ![r] = Undefined]
    /\ notice' = [notice EXCEPT ![r] = None]
    /\ UNCHANGED everFellBack
    /\ probes' = [probes EXCEPT ![r] = 0]
    /\ UNCHANGED <<fnArg, fnOut, isTestEnvironment, deployVars>>
    /\ responded' = [responded EXCEPT ![r] = 0]
    /\ effects' = [effects EXCEPT ![r] = {}]
    /\ session' = [session EXCEPT ![r] = Undefined]
    /\ leftArmed' = [leftArmed EXCEPT ![r] = {}]
    /\ id' = [id EXCEPT ![r] = Undefined]
    /\ chat' = [chat EXCEPT ![r] = Pending]

\* what requests are made of: every model, message list and option
AllInputs ==
    [posts |-> PostBodies, sessions |-> Sessions, counts |-> MessageCounts,
     chats |-> ChatLookups, lists |-> MessageLists, options |-> DirectOptions,
     ids |-> DeleteIds, deleters |-> DeleteSessions, deleted |-> BOOLEAN]

\* what the requests that run concurrently are made of: a POST of the
\* user that passes the checks, for the default model and for a MOE model,
\* and a list with and a list without a user message
ConcurrentInputs ==
    [posts |-> {Return(PostBody("chat-model")), Return(PostBody("moe-auto"))},
     sessions |-> {UserSession},
     counts |-> {Num(0)},
     chats |-> {Return(Obj([id |-> Str("chat"), userId |-> Str("me")]))},
     ids |-> {Str("chat")}, deleters |-> {UserSession}, deleted |-> {TRUE},
     lists |-> {<<>>, <<Msg("user", Str("hi"))>>},
     options |-> {Undefined}]

\* one step of request r, its inputs drawn from `inputs`
StepOn(r, inputs) ==
    \/ \E parsed \in inputs.posts, sess \in inputs.sessions : PostBegin(r, parsed, sess)
    \/ \E messageCount \in inputs.counts : PostCheckLimit(r, messageCount)
    \/ \E s \in inputs.chats : PostLookupChat(r, s)
    \/ \E msgs \in PostMessageLists : PostSaveMessage(r, msgs)
    \/ \E msgs \in inputs.lists, o \in inputs.options : DirectDispatch(r, msgs, o)
    \/ \E param \in inputs.ids, sess \in inputs.deleters : DeleteBegin(r, param, sess)
    \/ \E s \in inputs.chats, deleted \in inputs.deleted : DeleteLookup(r, s, deleted)
    \/ Respond(r)
    \/ \E ok \in BOOLEAN : HealthHeaders(r, ok)
    \/ HealthFetchFails(r)
    \/ HealthTimeout(r)
    \/ \E data \in HealthBodies : HealthBody(r, data)
    \/ HealthBodyFails(r)
    \/ \E ok \in BOOLEAN, status \in ErrorStatuses : ProcessHeaders(r, ok, status)
    \/ ProcessFetchFails(r)
    \/ ProcessTimeout(r)
    \/ \E body \in ProcessBodies : ProcessBody(r, body)
    \/ ProcessBodyFails(r)
    \/ DeadlinePasses(r)
    \/ GlobalTimeoutFires(r)
    \/ \E kind \in {"health", "process"} : StrayTimerFires(r, kind)
    \/ GenerateReturns(r)
    \/ \E error \in GenerateErrors : GenerateFails(r, error)
    \/ NextRequest(r)

\* one step of request r
Step(r) == StepOn(r, AllInputs)

\* the requests in progress run concurrently: their steps interleave
Next == \E r \in Reqs : StepOn(r, ConcurrentInputs)

Spec == Init /\ [][Next]_vars

\* one request at a time, each started when the one before it has ended
NextSeq == Step(1)

SpecSeq == Init /\ [][NextSeq]_vars

\* getMessageCountByUserId({ id, differenceInHours: 24 }) (route.ts, lines
\* 60-63): the messages of the user saved within the window, which are those
\* the requests of the slots have saved
MessageCountByUserId == Cardinality({q \in Reqs : "saveMessages" \in effects[q]})

\* what the chat POSTs of one user are made of: a body that parses, the
\* session of the user, a chat of the user
LimitInputs ==
    [posts |-> {Return(PostBody("chat-model"))},
     sessions |-> {UserSession},
     chats |-> {Return(Obj([id |-> Str("chat"), userId |-> Str("me")]))}]

\* one step of the chat POST of slot r, the count of the messages of the
\* user read from what the POSTs have saved (route.ts, lines 33-197)
StepLimit(r) ==
    \/ \E parsed \in LimitInputs.posts, sess \in LimitInputs.sessions :
           PostBegin(r, parsed, sess)
    \/ PostCheckLimit(r, Num(MessageCountByUserId))
    \/ \E s \in LimitInputs.chats : PostLookupChat(r, s)
    \/ \E msgs \in PostMessageLists : PostSaveMessage(r, msgs)
    \/ Respond(r)
    \/ GlobalTimeoutFires(r)
    \/ GenerateReturns(r)

\* the chat POSTs of one user, one per slot, run concurrently
NextLimit == \E r \in Reqs : StepLimit(r)

SpecLimit == Init /\ [][NextLimit]_vars

\* the process runs in the test environment
InitTest ==
    /\ InitRequests
    /\ fnArg = NoApplication
    /\ fnOut = Pending
    /\ isTestEnvironment = TRUE
    /\ NoDeploy

\* one step of a chat POST in the test environment, over every input of a
\* POST
StepTest(r) ==
    \/ \E parsed \in AllInputs.posts, sess \in AllInputs.sessions :
           PostBegin(r, parsed, sess)
    \/ \E messageCount \in AllInputs.counts : PostCheckLimit(r, messageCount)
    \/ \E s \in AllInputs.chats : PostLookupChat(r, s)
    \/ \E msgs \in PostMessageLists : PostSaveMessage(r, msgs)
    \/ Respond(r)
    \/ \E ok \in BOOLEAN : HealthHeaders(r, ok)
    \/ HealthFetchFails(r)
    \/ HealthTimeout(r)
    \/ \E data \in HealthBodies : HealthBody(r, data)
    \/ HealthBodyFails(r)
    \/ DeadlinePasses(r)
    \/ GlobalTimeoutFires(r)
    \/ \E kind \in {"health"} : StrayTimerFires(r, kind)
    \/ GenerateReturns(r)
    \/ \E error \in GenerateErrors : GenerateFails(r, error)
    \/ NextRequest(r)

\* chat POSTs in the test environment, one after the other
NextTest == StepTest(1)

SpecTest == InitTest /\ [][NextTest]_vars

\* moe.ts, lines 119-136: extractMessageText applied to fnArg.arg
ApplyExtractMessageText ==
    /\ fnArg.fn = "extractMessageText"
    /\ fnOut = Pending
    /\ fnOut' = Return(Str(extractMessageText(fnArg.arg)))
    /\ UNCHANGED <<requestVars, fnArg, isTestEnvironment, deployVars>>

\* moe.ts, lines 10 and 78: the module reads the environment variable
\* fnArg.arg, and processMOEText arms its timer with the result
ApplyProcessDeadline ==
    /\ fnArg.fn = "MOE_TIMEOUT_MS"
    /\ fnOut = Pending
    /\ fnOut' = Return(Num(ProcessDeadline(fnArg.arg)))
    /\ UNCHANGED <<requestVars, fnArg, isTestEnvironment, deployVars>>

\* a function of moe.ts applied on its own, to each of its inputs
InitFn ==
    /\ InitRequests
    /\ fnArg \in Applications
    /\ fnOut = Pending
    /\ isTestEnvironment = FALSE
    /\ NoDeploy

NextFn == ApplyExtractMessageText \/ ApplyProcessDeadline

SpecFn == InitFn /\ [][NextFn]_vars

\* ----------------------------------------------------------- deploy script

\* deploy script, lines 41-59: what execCommand does with a command that
\* succeeds or fails, for its options: it returns the output, returns null
\* (printing the error unless ignoreError), or exits
ExecCommand(succeeds, ignoreError, exit) ==
    IF succeeds THEN [result |-> "output", printed |-> {}]
    ELSE IF ignoreError THEN [result |-> "null", printed |-> {}]
    ELSE [result |-> IF exit THEN "exit" ELSE "null",
          printed |-> {"Error executing command"}]

\* process.exit(code)
Exit(code) ==
    /\ exitCode' = code
    /\ at' = "exited"

\* deploy script, lines 269-277: is the Vercel CLI installed
CheckVercelCLI(installed) ==
    /\ at = "checkVercelCLI"
    /\ IF installed
       THEN at' = "checkVercelLogin" /\ UNCHANGED <<stdout, exitCode>>
       ELSE /\ stdout' = stdout \cup {"Vercel CLI is not installed."}
            /\ Exit(1)
    /\ UNCHANGED <<files, created, proceed, deployResult>>
    /\ UNCHANGED chatVars

\* deploy script, lines 279-294: is the user logged in
CheckVercelLogin(loggedIn) ==
    /\ at = "checkVercelLogin"
    /\ at' = IF loggedIn THEN "checkEnvironmentFiles" ELSE "askLogin"
    /\ UNCHANGED <<files, created, proceed, deployResult, stdout, exitCode>>
    /\ UNCHANGED chatVars

\* deploy script, lines 286-291: the answer to 'Do you want to login now?'
AnswerLogin(answer, succeeds) ==
    /\ at = "askLogin"
    /\ IF answer
       THEN /\ stdout' = stdout \cup ExecCommand(succeeds, FALSE, FALSE).printed
            /\ at' = "checkEnvironmentFiles"
            /\ UNCHANGED exitCode
       ELSE Exit(1) /\ UNCHANGED stdout
    /\ UNCHANGED <<files, created, proceed, deployResult>>
    /\ UNCHANGED chatVars

\* deploy script, lines 88-99 and 296-329: does .env.local exist
CheckEnvironmentFiles ==
    /\ at = "checkEnvironmentFiles"
    /\ at' = IF ".env.local" \in files THEN "checkMoeApiUrl" ELSE "askCreate"
    /\ UNCHANGED <<files, created, proceed, deployResult, stdout, exitCode>>
    /\ UNCHANGED chatVars

\* deploy script, lines 300-326: the answer to 'Do you want to create
\* them?': .env.local is written with sample values
AnswerCreate(answer) ==
    /\ at = "askCreate"
    /\ IF answer
       THEN /\ files' = files \cup {".env.local"}
            /\ at' = "askEdit"
            /\ UNCHANGED exitCode
       ELSE Exit(1) /\ UNCHANGED files
    /\ UNCHANGED <<created, proceed, deployResult, stdout>>
    /\ UNCHANGED chatVars

\* deploy script, lines 316-322: the answer to 'Do you want to edit
\* .env.local now?'; the error of the editor is ignored
AnswerEdit(answer, succeeds) ==
    /\ at = "askEdit"
    /\ IF answer
       THEN /\ stdout' = stdout \cup ExecCommand(succeeds, TRUE, FALSE).printed
            /\ at' = "checkMoeApiUrl"
            /\ UNCHANGED exitCode
       ELSE Exit(1) /\ UNCHANGED stdout
    /\ UNCHANGED <<files, created, proceed, deployResult>>
    /\ UNCHANGED chatVars

\* deploy script, lines 208-258: MOE_API_URL is read from .env.local; when
\* it is not set the user is asked for it and .env.local is written, which
\* may fail
CheckMoeApiUrl(isSet, written) ==
    /\ at = "checkMoeApiUrl"
    /\ at' = "createVercelEnvFile"
    /\ IF isSet /\ ".env.local" \in files
       THEN UNCHANGED <<files, stdout>>
       ELSE IF written
            THEN /\ files' = files \cup {".env.local"}
                 /\ stdout' = stdout \cup {"Updated MOE_API_URL in .env.local"}
            ELSE /\ stdout' = stdout \cup {"Error updating .env.local:"}
                 /\ UNCHANGED files
    /\ UNCHANGED <<created, proceed, deployResult, exitCode>>
    /\ UNCHANGED chatVars

\* deploy script, lines 104-133 and 335: .env.local is read and its
\* variables are written to vercel.env.json; main ignores the result
CreateVercelEnvFile(written) ==
    /\ at = "createVercelEnvFile"
    /\ at' = "askTests"
    /\ IF ".env.local" \in files /\ written
       THEN /\ files' = files \cup {"vercel.env.json"}
            /\ created' = TRUE
            /\ stdout' = stdout \cup {"Created vercel.env.json"}
       ELSE /\ stdout' = stdout \cup {"Error creating Vercel environment file:"}
            /\ UNCHANGED <<files, created>>
    /\ UNCHANGED <<proceed, deployResult, exitCode>>
    /\ UNCHANGED chatVars

\* deploy script, lines 337-343: the answer to 'Run tests?'; the error of
\* the tests is ignored
AnswerTests(answer, succeeds) ==
    /\ at = "askTests"
    /\ at' = "askProceed"
    /\ stdout' = stdout \cup (IF answer THEN ExecCommand(succeeds, TRUE, FALSE).printed ELSE {})
    /\ UNCHANGED <<files, created, proceed, deployResult, exitCode>>
    /\ UNCHANGED chatVars

\* deploy script, lines 345-350: the answer to 'Ready to deploy to Vercel.
\* Proceed?'
AnswerProceed(answer) ==
    /\ at = "askProceed"
    /\ proceed' = IF answer THEN "y" ELSE "n"
    /\ IF answer
       THEN at' = "deployToVercel" /\ UNCHANGED <<stdout, exitCode>>
       ELSE /\ stdout' = stdout \cup {"Deployment cancelled."}
            /\ Exit(0)
    /\ UNCHANGED <<files, created, deployResult>>
    /\ UNCHANGED chatVars

\* deploy script, lines 149-165 and 353: the answer to the question about
\* the custom URL; the deploy command runs and succeeds or fails;
\* deployToVercel returns true either way, and main goes on
DeployToVercel(useCustomUrl, succeeds) ==
    /\ at = "deployToVercel"
    /\ LET run == ExecCommand(succeeds, FALSE, FALSE) IN
       /\ deployResult' = run.result
       /\ stdout' = stdout \cup run.printed
       /\ at' = "verifyDeployment"
       /\ UNCHANGED exitCode
    /\ UNCHANGED <<files, created, proceed>>
    /\ UNCHANGED chatVars

\* deploy script, lines 170-203 and 356: the deployments are listed: a URL,
\* nothing, or an error
VerifyDeployment(listing) ==
    /\ at = "verifyDeployment"
    /\ IF listing = "url"
       THEN /\ stdout' = stdout \cup {"Deployment successful!"}
            /\ at' = "askOpen"
       ELSE /\ stdout' = stdout \cup {"Could not automatically verify deployment."}
            /\ at' = "cleanUp"
    /\ UNCHANGED <<files, created, proceed, deployResult, exitCode>>
    /\ UNCHANGED chatVars

\* deploy script, lines 185-192: the answer to 'Do you want to open the
\* deployed site in your browser?'
AnswerOpen(answer, succeeds) ==
    /\ at = "askOpen"
    /\ at' = "cleanUp"
    /\ stdout' = stdout \cup (IF answer THEN ExecCommand(succeeds, FALSE, FALSE).printed ELSE {})
    /\ UNCHANGED <<files, created, proceed, deployResult, exitCode>>
    /\ UNCHANGED chatVars

\* deploy script, lines 358-378: vercel.env.json is deleted when it exists;
\* the banner and the message of success are printed and main returns; an
\* error of unlinkSync rejects main, and the catch exits with 1
CleanUp(unlinked) ==
    /\ at = "cleanUp"
    /\ IF "vercel.env.json" \in files /\ ~unlinked
       THEN /\ stdout' = stdout \cup {"Deployment failed:"}
            /\ Exit(1)
            /\ UNCHANGED files
       ELSE /\ files' = files \ {"vercel.env.json"}
            /\ stdout' = stdout \cup {"DEPLOYMENT COMPLETE",
                                       "The NextJS MOE application has been successfully deployed to Vercel!"}
            /\ Exit(0)
    /\ UNCHANGED <<created, proceed, deployResult>>
    /\ UNCHANGED chatVars

\* the deploy script is started, in a directory with or without .env.local
\* and without vercel.env.json
InitDeploy ==
    /\ InitRequests
    /\ fnArg = NoApplication
    /\ fnOut = Pending
    /\ isTestEnvironment = FALSE
    /\ at = "checkVercelCLI"
    /\ files \in {{}, {".env.local"}}
    /\ created = FALSE
    /\ proceed = "unasked"
    /\ deployResult = "none"
    /\ stdout = {}
    /\ exitCode = -1

NextDeploy ==
    \/ \E installed \in BOOLEAN : CheckVercelCLI(installed)
    \/ \E loggedIn \in BOOLEAN : CheckVercelLogin(loggedIn)
    \/ \E answer \in BOOLEAN, succeeds \in BOOLEAN : AnswerLogin(answer, succeeds)
    \/ CheckEnvironmentFiles
    \/ \E answer \in BOOLEAN : AnswerCreate(answer)
    \/ \E answer \in BOOLEAN, succeeds \in BOOLEAN : AnswerEdit(answer, succeeds)
    \/ \E isSet \in BOOLEAN, written \in BOOLEAN : CheckMoeApiUrl(isSet, written)
    \/ \E written \in BOOLEAN : CreateVercelEnvFile(written)
    \/ \E answer \in BOOLEAN, succeeds \in BOOLEAN : AnswerTests(answer, succeeds)
    \/ \E answer \in BOOLEAN : AnswerProceed(answer)
    \/ \E useCustomUrl \in BOOLEAN, succeeds \in BOOLEAN : DeployToVercel(useCustomUrl, succeeds)
    \/ \E listing \in {"url", "empty", "throws"} : VerifyDeployment(listing)
    \/ \E answer \in BOOLEAN, succeeds \in BOOLEAN : AnswerOpen(answer, succeeds)
    \/ \E unlinked \in BOOLEAN : CleanUp(unlinked)

SpecDeploy == InitDeploy /\ [][NextDeploy]_vars

\* ------------------------------------------------------------------ claims

UsedFallback(r) == settled[r].c = "return" /\ Get(settled[r].v, "usedFallback") = Bool(TRUE)

UsedMOE(r) == settled[r].c = "return" /\ Get(settled[r].v, "usedFallback") = Bool(FALSE)

\* the health probe or the processing call of the dispatch of r failed: a
\* negative probe, a timeout, a transport error, a status that is not ok, a
\* body that does not parse
ServiceFailed(r) ==
    \/ fetched[r].health \in {"negative", "timeout", "neterror", "status", "unparseable"}
    \/ fetched[r].process \in {"timeout", "neterror", "status", "unparseable"}

\* C1: processMOERequest never throws, and whenever the health probe or the
\* processing call of a dispatch failed (probe negative, timeout, transport
\* error, status not ok, unparseable body) the dispatch has returned a result
\* whose usedFallback is true.
C1_FailureBecomesFallback ==
    \A r \in Reqs :
        /\ settled[r].c # "throw"
        /\ ServiceFailed(r) => UsedFallback(r)

\* a processing call timed out and its dispatch returned the fallback result
C1_Witness ==
    \E r \in Reqs : fetched[r].process = "timeout" /\ UsedFallback(r)

\* C2: in a dispatch whose health probe returned a value that is not truthy,
\* nothing was sent to /process/sync, no processing call is in flight and the
\* dispatch has returned usedFallback = true.
C2_NoCallWhenUnhealthy ==
    \A r \in Reqs :
        (fetched[r].health # "none" /\ ~Truthy(isMOEAvailable[r])) =>
            /\ sent[r] = <<>>
            /\ call[r].kind # "process"
            /\ UsedFallback(r)

\* a probe answered with a body that is not affirmative, and the dispatch
\* fell back without a processing call
C2_Witness ==
    \E r \in Reqs :
        /\ fetched[r].health = "negative"
        /\ sent[r] = <<>>
        /\ UsedFallback(r)

\* C3: a result with usedFallback = false carries the output text and the
\* id of the expert used (both strings), a confidence and a processing time.
C3_SuccessCarriesFields ==
    \A r \in Reqs :
        UsedMOE(r) =>
            /\ Get(settled[r].v, "result").t = "string"
            /\ Get(settled[r].v, "expertUsed").t = "string"
            /\ Get(settled[r].v, "confidence").t = "number"
            /\ Get(settled[r].v, "processingTime").t = "number"

\* C4: every result with usedFallback = true has expertUsed = "fallback",
\* confidence = 0 and records the error.
C4_DegradedResultShape ==
    \A r \in Reqs :
        UsedFallback(r) =>
            /\ Get(settled[r].v, "expertUsed") = Str("fallback")
            /\ Get(settled[r].v, "confidence") = Num(0)
            /\ Get(settled[r].v, "error") # Undefined

\* the expert the caller of the dispatch forces, Undefined when none
ForcedExpert(r) == Get(options[r], "expertModel")

\* C5: when the caller forces a known expert and the service is healthy, every
\* body sent to /process/sync names that expert in its options (force_expert
\* in the service's API).
C5_ForcedExpertIsSent ==
    \A r \in Reqs :
        (ForcedExpert(r) # Undefined /\ ForcedExpert(r).s \in KnownExperts) =>
            \A i \in DOMAIN sent[r] :
                \/ Get(sent[r][i].options, "force_expert") = ForcedExpert(r)
                \/ Get(sent[r][i].options, "expertModel") = ForcedExpert(r)

\* C6: a dispatch whose forced expert is not an expert of the service does
\* not return a result: it fails with an error.
C6_UnknownExpertFails ==
    \A r \in Reqs :
        (ForcedExpert(r) # Undefined /\ ForcedExpert(r).s \notin KnownExperts) =>
            settled[r].c # "return"

\* C7: at no time is more than one health probe in flight.
C7_OneProbeInFlight ==
    Cardinality({r \in Reqs : call[r].kind = "health"}) <= 1

\* C8: no remote call is still in flight after its deadline has passed.
C8_NoCallPastDeadline ==
    \A r \in Reqs : ~(call[r].kind # "none" /\ call[r].expired)

\* C9: once the global abort of a POST has fired, no remote call of that
\* request is in flight.
C9_AbortCancelsCalls ==
    \A r \in Reqs : aborted[r] => call[r].kind = "none"

\* C10: a dispatch cannot wait for the remote for ever: whenever it awaits a
\* remote call, the timer that ends the wait at the deadline can still fire.
C10_WaitIsBounded ==
    \A r \in Reqs :
        pc[r] \in {"dispatchProbe", "dispatchProcess"} =>
            ENABLED (HealthTimeout(r) \/ ProcessTimeout(r))

ProcessFailed(r) ==
    fetched[r].process \in {"timeout", "neterror", "status", "unparseable"}

\* C12: a dispatch sends at most two requests to /process/sync, and once its
\* processing call has failed it has returned the fallback result and awaits
\* no further call.
C12_AtMostOneRetry ==
    \A r \in Reqs :
        /\ Len(sent[r]) <= 2
        /\ ProcessFailed(r) => UsedFallback(r) /\ call[r].kind = "none"

\* a processing call answered with a status that is not ok, after one
\* request, and the dispatch fell back
C12_Witness ==
    \E r \in Reqs :
        fetched[r].process = "status" /\ Len(sent[r]) = 1 /\ UsedFallback(r)

\* C13: a probe that reports healthy has completed within its deadline, with
\* an ok status and its body read: a step in which a probe returns a truthy
\* verdict (to the route handler or to the dispatch) starts from a probe that
\* is reading the body of an ok response and whose deadline has not passed.
C13_HealthyOnlyWithinDeadline ==
    [][\A r \in Reqs :
         (/\ AwaitsHealth(r)
          /\ call'[r].kind # "health"
          /\ IF pc[r] = "routeProbe" THEN Truthy(moeAvailable'[r])
                                     ELSE Truthy(isMOEAvailable'[r]))
         => (call[r].phase = "body" /\ ~call[r].expired)]_vars

\* C14: checkMOEAvailability never throws: no dispatch saw its probe throw and
\* the catch of the route handler around the probe never ran. A probe whose
\* liveness call failed returned a verdict that is not truthy, and the
\* failure is on the console: written by the catch of checkMOEAvailability
\* when the fetch or the body failed, by the caller otherwise.
C14_ProbeNeverThrows ==
    \A r \in Reqs :
        /\ fetched[r].health # "threw"
        /\ LogRouteCheckError \notin console[r]
        /\ fetched[r].health \in {"timeout", "neterror", "unparseable"} =>
               LogHealthCheckFailed \in console[r]
        /\ fetched[r].health \in {"timeout", "neterror", "unparseable", "status", "negative"} =>
               /\ ~Truthy(isMOEAvailable[r])
               /\ console[r] \cap {LogHealthCheckFailed, LogMOEUnavailable} # {}

\* the liveness call of a direct dispatch was refused: the probe returned
\* false, the failure was logged and the dispatch fell back
C14_Witness ==
    \E r \in Reqs :
        /\ caller[r] = "direct"
        /\ fetched[r].health = "neterror"
        /\ isMOEAvailable[r] = Bool(FALSE)
        /\ LogHealthCheckFailed \in console[r]
        /\ UsedFallback(r)

\* a body of /process/sync that has the fields of MOEResponse
WellFormed(body) ==
    /\ ~ReadThrows(body)
    /\ \A k \in {"result", "expert_used", "confidence", "processing_time"} :
           Get(body, k) # Undefined

\* C15: a dispatch whose processing call was answered with a status that is
\* not ok, with a body that does not parse, or with a body that lacks a field
\* of MOEResponse does not return usedFallback = false.
C15_MalformedIsFailure ==
    \A r \in Reqs :
        (\/ fetched[r].process \in {"status", "unparseable"}
         \/ fetched[r].process = "body" /\ ~WellFormed(fetched[r].body))
        => ~UsedMOE(r)

\* C16: in a chat request for a MOE model the default model is invoked at most
\* once and not before the dispatch has returned; it has been invoked once
\* when the dispatch returned usedFallback = true; it has not been invoked
\* when the dispatch returned usedFallback = false, and then the middleware
\* returned the result text of the expert.
C16_GenerateOnlyOnFallback ==
    \A r \in Reqs :
        (caller[r] = "post" /\ HasMOEMiddleware(selectedChatModel[r])) =>
            /\ generateCalls[r] <= 1
            /\ settled[r] = Pending => generateCalls[r] = 0
            /\ UsedFallback(r) => generateCalls[r] = 1
            /\ UsedMOE(r) =>
                   /\ generateCalls[r] = 0
                   /\ returned[r] = Obj([text |-> Get(settled[r].v, "result")])

\* a request for moe-expert-byt5 fell back and was answered by the one call
\* of the default model
C16_Witness ==
    \E r \in Reqs :
        /\ selectedChatModel[r] = "moe-expert-byt5"
        /\ UsedFallback(r)
        /\ generateCalls[r] = 1
        /\ returned[r] = GeneratedResponse

\* the request of r for a MOE model was answered by the default model after
\* the dispatch found the service unavailable or failing
ServedByFallback(r) ==
    /\ caller[r] = "post"
    /\ IsMOEModel(selectedChatModel[r])
    /\ pc[r] = "done"
    /\ ServiceFailed(r)
    /\ UsedFallback(r)
    /\ returned[r] = GeneratedResponse

\* C17: a chat request for a MOE model that was answered by the fallback
\* model because the MOE service was unavailable has sent the user the
\* notification that the MOE service is unavailable.
C17_FallbackIsNotified ==
    \A r \in Reqs : ServedByFallback(r) => notice[r] = MOEUnavailableNotice

\* C18: after dispatches that fell back, a dispatch whose probe is answered
\* affirmatively sends its processing request (when it has a user message),
\* and when that request is answered with a well-formed body the dispatch
\* returns usedFallback = false.
C18_Recovery ==
    \A r \in Reqs :
        (everFellBack /\ fetched[r].health = "affirmative") =>
            /\ LastUserMessage(messages[r]) # Undefined => Len(sent[r]) = 1
            /\ (fetched[r].process = "body" /\ WellFormed(fetched[r].body)) => UsedMOE(r)

\* an earlier dispatch fell back, and this one, probed healthy and answered
\* with a well-formed body, used the MOE service
C18_Witness ==
    \E r \in Reqs :
        /\ everFellBack
        /\ fetched[r].health = "affirmative"
        /\ fetched[r].process = "body"
        /\ WellFormed(fetched[r].body)
        /\ UsedMOE(r)

\* C19: whatever processMOEText throws is a MOEError; when its timer expired
\* the status is 408, when the response was not ok the status is that of the
\* response, and for a failed fetch or a body that does not parse there is
\* no status.
C19_FailuresAreMOEErrors ==
    \A r \in Reqs :
        /\ fetched[r].error # Undefined => fetched[r].error.name = "MOEError"
        /\ ProcessFailed(r) => fetched[r].error # Undefined
        /\ fetched[r].process = "timeout" => fetched[r].error.status = Num(408)
        /\ fetched[r].process = "status" => fetched[r].error.status = fetched[r].status
        /\ fetched[r].process \in {"neterror", "unparseable"} =>
               fetched[r].error.status = Undefined

\* /process/sync answered 503 and processMOEText threw a MOEError with
\* status 503
C19_Witness ==
    \E r \in Reqs :
        /\ fetched[r].process = "status"
        /\ fetched[r].status = Num(503)
        /\ fetched[r].error = MOEError("MOE API returned status", Num(503))

\* C20: the stages of a dispatch do not overlap. While the probe is awaited
\* nothing has been sent to /process/sync and the dispatch has not returned;
\* the processing call is awaited only after the probe has ended, healthy,
\* and before the dispatch returns; once the dispatch has returned (the
\* fallback decided) no call is in flight and the processing call has ended
\* or was never made.
C20_StagesInOrder ==
    \A r \in Reqs :
        /\ pc[r] = "dispatchProbe" =>
               /\ call[r].kind = "health"
               /\ fetched[r].health = "none"
               /\ sent[r] = <<>>
               /\ settled[r] = Pending
        /\ (pc[r] = "dispatchProcess" \/ sent[r] # <<>>) =>
               fetched[r].health = "affirmative"
        /\ pc[r] = "dispatchProcess" =>
               /\ call[r].kind = "process"
               /\ fetched[r].process = "none"
               /\ settled[r] = Pending
        /\ settled[r] # Pending =>
               /\ call[r].kind = "none"
               /\ fetched[r].health # "none"
               /\ sent[r] = <<>> \/ fetched[r].process # "none"

\* a dispatch went through all three stages: probed healthy, called the
\* expert, which failed, and then fell back
C20_Witness ==
    \E r \in Reqs :
        /\ fetched[r].health = "affirmative"
        /\ fetched[r].process = "unparseable"
        /\ Len(sent[r]) = 1
        /\ call[r].kind = "none"
        /\ UsedFallback(r)

\* C21: a health query made while a verdict is fresh issues no probe: the
\* dispatch that the route handler starts right after its own probe has
\* returned a verdict, with no wait in between, does not call /health again.
C21_FreshVerdictIsReused ==
    [][\A r \in Reqs :
         (pc[r] = "respond" /\ probes[r] = 1) => call'[r].kind # "health"]_vars

\* C22: a chat POST calls /health at most once, route handler and provider
\* middleware taken together.
C22_OneProbePerPost ==
    \A r \in Reqs : caller[r] = "post" => probes[r] <= 1

\* what the dispatch of r returns according to its own messages and the
\* responses to its own probe and processing call
OwnResult(r) ==
    IF fetched[r].health # "affirmative" \/ LastUserMessage(messages[r]) = Undefined
    THEN Return(FallbackResult)
    ELSE IF fetched[r].process = "body"
         THEN DispatchFromResponse(fetched[r].body)
         ELSE Return(FallbackResult)

\* the part of the state that belongs to the dispatch of r
Own(r) == <<call[r], sent[r], isMOEAvailable[r], fetched[r], settled[r]>>

\* C23: under every interleaving of concurrent dispatches, the result of a
\* dispatch is the one its own messages and the responses to its own probe
\* and processing call give, a dispatch that awaits a remote call still has
\* that call in flight, and a step of one dispatch changes nothing of
\* another: neither its call nor what it sent, fetched or returned.
C23_DispatchesAreIndependent ==
    /\ [](\A r \in Reqs :
             /\ settled[r] # Pending => settled[r] = OwnResult(r)
             /\ pc[r] \in {"routeProbe", "dispatchProbe"} => call[r].kind = "health"
             /\ pc[r] = "dispatchProcess" => call[r].kind = "process")
    /\ [][\A p, q \in Reqs :
             (p # q /\ Own(p)' # Own(p)) => Own(q)' = Own(q)]_vars

\* while one dispatch has timed out on its processing call and fallen back,
\* another still awaits its own processing call
C23_Witness ==
    \E p, q \in Reqs :
        /\ p # q
        /\ fetched[p].process = "timeout"
        /\ UsedFallback(p)
        /\ pc[q] = "dispatchProcess"
        /\ call[q].kind = "process"

\* C24: two dispatches that were given the same messages and the same
\* response to their probe both call /process/sync or both do not, and when
\* the responses to their processing calls are the same too they return the
\* same result, whichever dispatches ran before.
C24_RoutingIsStable ==
    \A p, q \in Reqs :
        (/\ settled[p] # Pending
         /\ settled[q] # Pending
         /\ messages[p] = messages[q]
         /\ fetched[p].health = fetched[q].health)
        => /\ Len(sent[p]) = Len(sent[q])
           /\ fetched[p] = fetched[q] => settled[p] = settled[q]

\* after a dispatch fell back, two dispatches with the same messages and the
\* same responses were both answered by the same expert
C24_Witness ==
    \E p, q \in Reqs :
        /\ p # q
        /\ everFellBack
        /\ messages[p] = messages[q]
        /\ fetched[p] = fetched[q]
        /\ UsedMOE(p)
        /\ settled[p] = settled[q]

\* C25: for every configured value of MOE_TIMEOUT_MS, the deadline of the
\* health probe (5000 ms) is strictly smaller than the deadline the timer of
\* the processing call is armed with.
C25_ProbeDeadlineIsSmaller ==
    (fnArg.fn = "MOE_TIMEOUT_MS" /\ fnOut # Pending)
    => HEALTH_TIMEOUT_MS < fnOut.v.n

RECURSIVE SpacedTexts(_)
\* the string parts of `parts` in their order, one space between two of them
SpacedTexts(parts) ==
    IF parts = <<>> THEN ""
    ELSE LET last == parts[Len(parts)]
             front == SubSeq(parts, 1, Len(parts) - 1)
         IN  IF last.t # "string" THEN SpacedTexts(front)
             ELSE IF \A i \in 1..Len(front) : front[i].t # "string" THEN last.s
             ELSE SpacedTexts(front) \o " " \o last.s

\* what the text of a message is said to be
ExpectedText(message) ==
    IF message.t # "object" \/ "content" \notin DOMAIN message.f THEN ""
    ELSE LET content == message.f.content IN
         CASE content.t = "string" -> content.s
           [] content.t = "array" -> SpacedTexts(content.a)
           [] OTHER -> ""

\* C29: extractMessageText returns, for every argument: the empty string for
\* a missing message or missing content, the content when it is a string,
\* the string parts joined by single spaces when it is an array, and the
\* empty string for any other content; it never throws.
C29_TextOfEveryMessage ==
    (fnArg.fn = "extractMessageText" /\ fnOut # Pending)
    => fnOut = Return(Str(ExpectedText(fnArg.arg)))

C29_Witness ==
    /\ fnArg.arg = Msg("user", Arr(<<Str("b"), Obj([type |-> Str("image")]), Str("c")>>))
    /\ fnOut = Return(Str("b c"))

\* the positions of the messages with role 'user'
UserPositions(msgs) == {i \in 1..Len(msgs) : Get(msgs[i], "role") = Str("user")}

\* C28: every body processMOERequest sends carries the text of the last
\* message with role 'user' of its list, never that of another message; for
\* a list without user message it returns usedFallback = true and sends
\* nothing.
C28_SendsLastUserText ==
    \A r \in Reqs :
        LET users == UserPositions(messages[r]) IN
        /\ sent[r] # <<>> =>
               /\ users # {}
               /\ \A i \in 1..Len(sent[r]) :
                      \E last \in users :
                          /\ \A u \in users : u <= last
                          /\ sent[r][i].text = extractMessageText(messages[r][last])
        /\ (users = {} /\ settled[r] # Pending) => (sent[r] = <<>> /\ UsedFallback(r))

C28_Witness ==
    \E r \in Reqs :
        /\ messages[r] = <<Msg("user", Str("hi")),
                           Msg("user", Arr(<<Str("b"), Obj([type |-> Str("image")]), Str("c")>>))>>
        /\ Len(sent[r]) = 1
        /\ sent[r][1].text = "b c"

\* C26: in a chat POST for a MOE model, when the verdict the route handler
\* recorded (moeAvailable) is false, no body is sent to the processing
\* endpoint in that request; and the notice of a fallback model is produced
\* only for a request that did not use the MOE service.
C26_RouteVerdictAgrees ==
    \A r \in Reqs :
        /\ (caller[r] = "post" /\ IsMOEModel(selectedChatModel[r])
             /\ pc[r] \notin {"idle", "routeProbe"} /\ ~Truthy(moeAvailable[r]))
            => sent[r] = <<>>
        /\ notice[r] = MOEUnavailableNotice => ~UsedMOE(r)

\* the statuses a chat POST is rejected with
Rejections == {400, 401, 429, 403}

\* C30: a chat POST answered with 400, 401, 429 or 403 has written nothing
\* to storage and made no remote call: no title generated, no chat and no
\* message saved, no health probe, no call of the model; and the user
\* message is saved only by a POST that has passed the four checks.
C30_RejectionLeavesNoTrace ==
    \A r \in Reqs :
        /\ responded[r] \in Rejections =>
               /\ effects[r] = {}
               /\ probes[r] = 0 /\ call[r] = NoCall /\ sent[r] = <<>>
               /\ generateCalls[r] = 0 /\ returned[r] = Undefined
        /\ "saveMessages" \in effects[r] =>
               /\ responded[r] \notin Rejections
               /\ ~NoSessionUser(session[r])
               /\ pc[r] \notin {"idle", "postLimit", "postChat", "postSave"}

C30_Witness ==
    \E r \in Reqs :
        /\ responded[r] = 403
        /\ session[r] = UserSession
        /\ effects[r] = {}

\* C27: every deadline timer is released on every exit path: no timer of
\* checkMOEAvailability or processMOEText is left armed when the function
\* has returned or thrown, and the global timer of a chat POST is not armed
\* any more when the POST has been answered.
C27_TimersAreReleased ==
    \A r \in Reqs :
        /\ leftArmed[r] = {}
        /\ (caller[r] = "post" /\ responded[r] # 0) => timeout[r] # "armed"

\* C31: under any sequence and interleaving of chat POSTs of one user, the
\* number of messages of that user saved within the window never exceeds
\* maxMessagesPerDay.
C31_DailyLimitHolds == MessageCountByUserId <= maxMessagesPerDay

\* the id of the user of the session of request r
SessionUserId(r) == Get(Get(session[r], "user"), "id")

\* C32: DELETE calls deleteChatById only when the session has a user and
\* the chat belongs to that user; a missing id is answered with 404, no
\* session with 401, the chat of another user with 403, and the id of a
\* chat that does not exist with a not-found response, nothing deleted.
C32_DeleteOnlyByOwner ==
    \A r \in Reqs :
        (caller[r] = "delete" /\ pc[r] = "done") =>
            /\ "deleteChatById" \in effects[r] =>
                   /\ Truthy(SessionUserId(r))
                   /\ chat[r].c = "return"
                   /\ Get(chat[r].v, "userId") = SessionUserId(r)
            /\ ~Truthy(id[r]) => responded[r] = 404
            /\ (Truthy(id[r]) /\ ~Truthy(SessionUserId(r))) => responded[r] = 401
            /\ (chat[r].c = "return" /\ chat[r].v.t = "object"
                /\ Get(chat[r].v, "userId") # SessionUserId(r)) => responded[r] = 403
            /\ (chat[r].c = "return" /\ chat[r].v.t # "object") =>
                   (responded[r] = 404 /\ "deleteChatById" \notin effects[r])

\* C33: in the test environment a chat request for a MOE model id makes no
\* call to the MOE service: no health probe and no call of the processing
\* endpoint.
C33_NoMOECallsInTest ==
    \A r \in Reqs :
        (isTestEnvironment /\ caller[r] = "post"
         /\ selectedChatModel[r] \in {"moe-expert-byt5", "moe-expert-longformer", "moe-auto"})
        => (probes[r] = 0 /\ call[r].kind = "none" /\ sent[r] = <<>>)

\* C34: the deploy script never leaves the secrets file behind: whenever it
\* has exited after having created vercel.env.json, the file is deleted.
C34_SecretsFileIsRemoved ==
    (exitCode # -1 /\ created) => "vercel.env.json" \notin files

\* C35: the deploy script prints the banner DEPLOYMENT COMPLETE and the
\* message of success only if the user confirmed the deployment and the
\* deploy command completed without error.
C35_SuccessOnlyAfterDeployment ==
    (stdout \cap {"DEPLOYMENT COMPLETE",
                  "The NextJS MOE application has been successfully deployed to Vercel!"} # {})
    => (proceed = "y" /\ deployResult = "output")

====
